---- MODULE Spec2Model ----
(***************************************************************************)
(* Propositional formulas: syntax (propositions/syntax.py), semantics      *)
(* (propositions/semantics.py) and operator reduction                      *)
(* (propositions/operators.py).                                            *)
(*                                                                         *)
(* A Python str is a sequence of one-character strings; a Formula is a     *)
(* record with the fields root, first and second that its kind has.        *)
(***************************************************************************)
EXTENDS Integers, Sequences, FiniteSets, TLC

VARIABLES formula, string, variable_list, values, substitution_map, op, result

vars == <<formula, string, variable_list, values, substitution_map, op, result>>

(***************************************************************************)
(* Bounds of the model.                                                    *)
(***************************************************************************)
\* Largest number of nodes of an input formula.
MaxSize == 4
\* Largest length of an arbitrary input string.
MaxLen == 3
\* Largest length of a variable list given to all_models and the synthesizers.
MaxVars == 2

(***************************************************************************)
(* Python values that are not formulas.                                    *)
(***************************************************************************)
\* Python's None, where a Formula may stand.
None == [none |-> TRUE]
\* Python's None, where a str may stand (no character is "None").
NoneStr == <<"None">>
\* A failed assert statement (also stands for the exception it raises
\* propagating through every caller).
AssertionError == [raised |-> "AssertionError"]
\* An attribute read from None (None.root).
AttributeError == [raised |-> "AttributeError"]

\* The text of an error message, kept as one opaque character.
Message(text) == <<text>>

(***************************************************************************)
(* Characters.                                                             *)
(***************************************************************************)
\* 'p' <= c <= 'z'
LettersPToZ == {"p", "q", "r", "s", "t", "u", "v", "w", "x", "y", "z"}
\* the characters str.isdecimal accepts (ASCII)
DecimalDigits == {"0", "1", "2", "3", "4", "5", "6", "7", "8", "9"}

\* s[i:] of Python, i counted from 0
From(s, i) == SubSeq(s, i + 1, Len(s))
\* s[:i] of Python
Upto(s, i) == SubSeq(s, 1, IF i < Len(s) THEN i ELSE Len(s))

isdecimal(s) == Len(s) > 0 /\ \A i \in 1..Len(s) : s[i] \in DecimalDigits

(***************************************************************************)
(* syntax.py: the kinds of root.                                           *)
(***************************************************************************)
is_variable(s) ==
    /\ s[1] \in LettersPToZ
    /\ (Len(s) = 1 \/ isdecimal(From(s, 1)))

is_constant(s) == s = <<"T">> \/ s = <<"F">>

is_unary(s) == s = <<"~">>

BinaryOperators ==
    {<<"&">>, <<"|">>, <<"-", ">">>, <<"+">>, <<"<", "-", ">">>,
     <<"-", "&">>, <<"-", "|">>}

is_binary(s) == s \in BinaryOperators

(***************************************************************************)
(* syntax.py: class Formula.                                               *)
(***************************************************************************)
IsRaised(x) == x \in {AssertionError, AttributeError}

\* Formula.__init__(root, first=None, second=None); an exception raised
\* while an argument was computed propagates.
Formula(root, first, second) ==
    IF IsRaised(first) THEN first
    ELSE IF IsRaised(second) THEN second
    ELSE IF is_variable(root) \/ is_constant(root)
    THEN IF first = None /\ second = None
         THEN [root |-> root] ELSE AssertionError
    ELSE IF is_unary(root)
    THEN IF first # None /\ second = None
         THEN [root |-> root, first |-> first] ELSE AssertionError
    ELSE IF is_binary(root) /\ first # None /\ second # None
    THEN [root |-> root, first |-> first, second |-> second]
    ELSE AssertionError

Var(name) == Formula(name, None, None)
Not(f) == Formula(<<"~">>, f, None)
Bin(o, f, g) == Formula(o, f, g)

RECURSIVE __repr__(_)
__repr__(f) ==
    IF is_variable(f.root) \/ is_constant(f.root) THEN f.root
    ELSE IF is_unary(f.root) THEN f.root \o __repr__(f.first)
    ELSE <<"(">> \o __repr__(f.first) \o f.root \o __repr__(f.second)
         \o <<")">>

\* Formula.__eq__: equal renderings
__eq__(f, other) == __repr__(f) = __repr__(other)

RECURSIVE variables(_)
variables(f) ==
    IF is_variable(f.root) THEN {f.root}
    ELSE IF is_constant(f.root) THEN {}
    ELSE IF is_unary(f.root) THEN variables(f.first)
    ELSE variables(f.first) \cup variables(f.second)

RECURSIVE operators(_)
operators(f) ==
    IF is_variable(f.root) THEN {}
    ELSE IF is_constant(f.root) THEN {f.root}
    ELSE IF is_unary(f.root) THEN {f.root} \cup operators(f.first)
    ELSE {f.root} \cup operators(f.first) \cup operators(f.second)

(***************************************************************************)
(* The input formulas: every Formula of at most a number of nodes over given*)
(* leaves and binary operators.                                            *)
(***************************************************************************)
RECURSIVE FormulasOfSize(_, _, _)
FormulasOfSize(leaves, binaries, n) ==
    IF n <= 0 THEN {}
    ELSE IF n = 1 THEN {Var(name) : name \in leaves}
    ELSE {Not(f) : f \in FormulasOfSize(leaves, binaries, n - 1)}
         \cup UNION {{Bin(o, f, g) :
                         o \in binaries,
                         f \in FormulasOfSize(leaves, binaries, k),
                         g \in FormulasOfSize(leaves, binaries, n - 1 - k)}
                     : k \in 1..(n - 2)}

FormulasUpTo(leaves, binaries, n) ==
    UNION {FormulasOfSize(leaves, binaries, k) : k \in 1..n}

\* The variables of the formulas given to the reducers
VariableNames == {<<"p">>, <<"q">>}

\* Given to the reducers: both constants, two variables, every operator
Formulas(size) ==
    FormulasUpTo(VariableNames \cup {<<"T">>, <<"F">>}, BinaryOperators, size)

\* Given to the renderers and parsers: a constant, a one-letter and a
\* numbered variable, every operator
SyntaxFormulas(size) ==
    FormulasUpTo({<<"p">>, <<"x", "1">>, <<"T">>}, BinaryOperators, size)

\* Given to the substitutions: a constant and two variables, under '~' and
\* two binary operators
SubstitutionFormulas(size) ==
    FormulasUpTo({<<"p">>, <<"q">>, <<"F">>}, {<<"&">>, <<"|">>}, size)

(***************************************************************************)
(* syntax.py: parsing and rendering.                                       *)
(***************************************************************************)
Min(a, b) == IF a < b THEN a ELSE b

\* index = 1; while index < len(string) and string[index].isdecimal():
\*     index += 1
RECURSIVE ScanDigits(_, _)
ScanDigits(s, index) ==
    IF index < Len(s) /\ isdecimal(<<s[index + 1]>>)
    THEN ScanDigits(s, index + 1)
    ELSE index

\* A scan that tries operator tokens of one and two characters only.
LongestFirstOperator_two(remainder, max_op_length) ==
    LET lengths == {l \in 1..Min(2, max_op_length) :
                        is_binary(Upto(remainder, l))}
    IN  IF lengths = {} THEN NoneStr
        ELSE Upto(remainder,
                  CHOOSE l \in lengths : \A k \in lengths : k <= l)

\* for length in range(max_op_length, 0, -1): the first candidate
\* remainder[:length] that is a binary operator, None when there is none
LongestFirstOperator(remainder, max_op_length) ==
    LET lengths == {l \in 1..max_op_length : is_binary(Upto(remainder, l))}
    IN  IF lengths = {} THEN NoneStr
        ELSE Upto(remainder,
                  CHOOSE l \in lengths : \A k \in lengths : k <= l)

RECURSIVE _parse_prefix(_)
_parse_prefix(s) ==
    LET Rest ==
          IF is_unary(<<s[1]>>)
          THEN LET sub == _parse_prefix(From(s, 1))
               IN  IF sub[1] = None THEN <<None, sub[2]>>
                   ELSE <<Formula(<<s[1]>>, sub[1], None), sub[2]>>
          ELSE IF s[1] = "("
          THEN LET left == _parse_prefix(From(s, 1))
               IN  IF left[1] = None THEN <<None, left[2]>>
                   ELSE IF left[2] = <<>>
                   THEN <<None, Message("Expected binary operator")>>
                   ELSE
                   LET operator ==
                         LongestFirstOperator(left[2], Min(3, Len(left[2])))
                   IN  IF operator = NoneStr
                       THEN <<None, Message("Expected binary operator")>>
                       ELSE
                       LET right ==
                             _parse_prefix(From(left[2], Len(operator)))
                       IN  IF right[1] = None THEN <<None, right[2]>>
                           ELSE IF right[2] = <<>> \/ right[2][1] # ")"
                           THEN <<None,
                                  Message("Expected closing parenthesis")>>
                           ELSE <<Formula(operator, left[1], right[1]),
                                  From(right[2], 1)>>
          ELSE <<None, Message("Invalid formula")>>
    IN  IF Len(s) = 0 THEN <<None, Message("Unexpected end of input")>>
        ELSE IF is_constant(<<s[1]>>)
        THEN <<Formula(<<s[1]>>, None, None), From(s, 1)>>
        ELSE IF s[1] \in LettersPToZ
        THEN LET index == ScanDigits(s, 1)
                 variable == Upto(s, index)
             IN  IF is_variable(variable)
                 THEN <<Formula(variable, None, None), From(s, index)>>
                 ELSE Rest
        ELSE Rest

\* An is_formula that accepts any string with a formula as a prefix.
is_formula_prefix(s) ==
    LET parsed == _parse_prefix(s)
    IN  parsed[1] # None

is_formula(s) ==
    LET parsed == _parse_prefix(s)
    IN  parsed[1] # None /\ parsed[2] = <<>>

parse(s) ==
    IF ~is_formula(s) THEN AssertionError
    ELSE LET parsed == _parse_prefix(s)
         IN  IF parsed[1] # None /\ parsed[2] = <<>> THEN parsed[1]
             ELSE AssertionError

RECURSIVE polish(_)
polish(f) ==
    IF is_variable(f.root) \/ is_constant(f.root) THEN f.root
    ELSE IF is_unary(f.root) THEN f.root \o polish(f.first)
    ELSE f.root \o polish(f.first) \o polish(f.second)

\* the binary operator parse_prefix reads at the head of s: s[:2] when it is
\* one, else s[0] when it is one, else None
PolishOperator(s) ==
    IF Len(s) >= 2 /\ is_binary(Upto(s, 2)) THEN Upto(s, 2)
    ELSE IF is_binary(<<s[1]>>) THEN <<s[1]>>
    ELSE NoneStr

\* the function parse_prefix nested in Formula.parse_polish
RECURSIVE parse_prefix(_)
parse_prefix(s) ==
    LET Rest ==
          IF is_unary(<<s[1]>>)
          THEN LET sub == parse_prefix(From(s, 1))
               IN  IF sub[1] = None THEN <<None, sub[2]>>
                   ELSE <<Formula(<<s[1]>>, sub[1], None), sub[2]>>
          ELSE
          LET operator == PolishOperator(s)
          IN  IF operator = NoneStr
              THEN <<None, Message("Invalid formula")>>
              ELSE
              LET left == parse_prefix(From(s, Len(operator)))
              IN  IF left[1] = None THEN <<None, left[2]>>
                  ELSE LET right == parse_prefix(left[2])
                       IN  IF right[1] = None THEN <<None, right[2]>>
                           ELSE <<Formula(operator, left[1], right[1]),
                                  right[2]>>
    IN  IF s = <<>> THEN <<None, Message("Unexpected end of input")>>
        ELSE IF is_constant(<<s[1]>>)
        THEN <<Formula(<<s[1]>>, None, None), From(s, 1)>>
        ELSE IF s[1] \in LettersPToZ
        THEN LET index == ScanDigits(s, 1)
                 name == Upto(s, index)
             IN  IF is_variable(name)
                 THEN <<Formula(name, None, None), From(s, index)>>
                 ELSE Rest
        ELSE Rest

parse_polish(s) ==
    LET parsed == parse_prefix(s)
    IN  IF parsed[1] # None /\ parsed[2] = <<>> THEN parsed[1]
        ELSE AssertionError

(***************************************************************************)
(* syntax.py: substitution.  A substitution map is a function from names   *)
(* (of variables, or of constants and operators) to formulas.              *)
(***************************************************************************)
\* f with every occurrence of the one variable name replaced by g
RECURSIVE substitute_one(_, _, _)
substitute_one(f, name, g) ==
    IF is_variable(f.root) THEN (IF f.root = name THEN g ELSE f)
    ELSE IF is_constant(f.root) THEN f
    ELSE IF is_unary(f.root)
    THEN Formula(f.root, substitute_one(f.first, name, g), None)
    ELSE Formula(f.root, substitute_one(f.first, name, g),
                 substitute_one(f.second, name, g))

RECURSIVE SubstituteEach(_, _, _)
SubstituteEach(f, map, names) ==
    IF names = {} THEN f
    ELSE LET name == CHOOSE n \in names : TRUE
         IN  SubstituteEach(substitute_one(f, name, map[name]), map,
                            names \ {name})

\* A substitute_variables that substitutes one variable after the other.
substitute_variables_sequential(f, map) ==
    IF \E variable \in DOMAIN map : ~is_variable(variable)
    THEN AssertionError
    ELSE SubstituteEach(f, map, DOMAIN map)

RECURSIVE substitute_variables(_, _)
substitute_variables(f, map) ==
    IF \E variable \in DOMAIN map : ~is_variable(variable)
    THEN AssertionError
    ELSE IF is_variable(f.root)
    THEN IF f.root \in DOMAIN map THEN map[f.root]
         ELSE Formula(f.root, None, None)
    ELSE IF is_constant(f.root) THEN Formula(f.root, None, None)
    ELSE IF is_unary(f.root)
    THEN Formula(f.root, substitute_variables(f.first, map), None)
    ELSE IF is_binary(f.root)
    THEN Formula(f.root, substitute_variables(f.first, map),
                 substitute_variables(f.second, map))
    ELSE None

\* Asserts that check the keys of the map only.
substitute_operators_raises_keys(map) ==
    \E operator \in DOMAIN map :
        ~(is_constant(operator) \/ is_unary(operator) \/ is_binary(operator))

\* The two assert statements of substitute_operators: TRUE when one fails.
substitute_operators_raises(map) ==
    \E operator \in DOMAIN map :
        \/ ~(is_constant(operator) \/ is_unary(operator)
             \/ is_binary(operator))
        \/ ~(variables(map[operator]) \subseteq {<<"p">>, <<"q">>})

\* {'p': new_first} and {'p': new_first, 'q': new_second}
Bind1(new_first) == [name \in {<<"p">>} |-> new_first]
Bind2(new_first, new_second) ==
    [name \in {<<"p">>, <<"q">>} |->
        IF name = <<"p">> THEN new_first ELSE new_second]

\* A substitute_operators that binds p and q to the children as they are.
RECURSIVE substitute_operators(_, _)
substitute_operators_shallow(f, map) ==
    IF substitute_operators_raises(map) THEN AssertionError
    ELSE IF is_constant(f.root)
    THEN IF f.root \in DOMAIN map THEN map[f.root]
         ELSE Formula(f.root, None, None)
    ELSE IF is_variable(f.root) THEN Formula(f.root, None, None)
    ELSE IF is_unary(f.root)
    THEN IF f.root \in DOMAIN map
         THEN substitute_variables(map[f.root], Bind1(f.first))
         ELSE Formula(f.root, substitute_operators(f.first, map), None)
    ELSE IF f.root \in DOMAIN map
         THEN substitute_variables(map[f.root], Bind2(f.first, f.second))
         ELSE Formula(f.root, substitute_operators(f.first, map),
                      substitute_operators(f.second, map))

substitute_operators(f, map) ==
    IF substitute_operators_raises(map) THEN AssertionError
    ELSE IF is_constant(f.root)
    THEN IF f.root \in DOMAIN map THEN map[f.root]
         ELSE Formula(f.root, None, None)
    ELSE IF is_variable(f.root) THEN Formula(f.root, None, None)
    ELSE IF is_unary(f.root)
    THEN IF f.root \in DOMAIN map
         THEN LET sub == map[f.root]
                  new_first == substitute_operators(f.first, map)
              IN  substitute_variables(sub, Bind1(new_first))
         ELSE Formula(f.root, substitute_operators(f.first, map), None)
    ELSE IF is_binary(f.root)
    THEN IF f.root \in DOMAIN map
         THEN LET sub == map[f.root]
                  new_first == substitute_operators(f.first, map)
                  new_second == substitute_operators(f.second, map)
              IN  substitute_variables(sub, Bind2(new_first, new_second))
         ELSE Formula(f.root, substitute_operators(f.first, map),
                      substitute_operators(f.second, map))
    ELSE None

(***************************************************************************)
(* semantics.py.  A Model is a function from variable names to BOOLEAN.    *)
(***************************************************************************)
is_model(model) == \A key \in DOMAIN model : is_variable(key)

model_variables(model) == DOMAIN model

\* The two assert statements that open evaluate: TRUE when one fails.
evaluate_raises(f, model) ==
    ~(is_model(model) /\ variables(f) \subseteq model_variables(model))

\* The body of evaluate, after its asserts.
RECURSIVE evaluate(_, _)
evaluate(f, model) ==
    IF is_constant(f.root) THEN f.root = <<"T">>
    ELSE IF is_variable(f.root) THEN model[f.root]
    ELSE IF is_unary(f.root) THEN ~evaluate(f.first, model)
    ELSE LET first_value == evaluate(f.first, model)
             second_value == evaluate(f.second, model)
         IN  CASE f.root = <<"&">> -> first_value /\ second_value
               [] f.root = <<"|">> -> first_value \/ second_value
               [] f.root = <<"-", ">">> -> (~first_value) \/ second_value
               [] f.root = <<"+">> -> first_value # second_value
               [] f.root = <<"<", "-", ">">> -> first_value = second_value
               [] f.root = <<"-", "&">> -> ~(first_value /\ second_value)
               [] f.root = <<"-", "|">> -> ~(first_value \/ second_value)

RECURSIVE Pow2(_)
Pow2(n) == IF n <= 0 THEN 1 ELSE 2 * Pow2(n - 1)

\* itertools.product([False, True], repeat=n): its k-th tuple, k from 0;
\* the last position varies fastest and False comes before True.
product(n, k) == [i \in 1..n |-> (k \div Pow2(n - i)) % 2 = 1]

\* dict(zip(keys, vals)): a key given twice keeps its last value.
dict_zip(keys, vals) ==
    [key \in {keys[i] : i \in 1..Len(keys)} |->
        vals[CHOOSE i \in 1..Len(keys) :
                /\ keys[i] = key
                /\ \A j \in 1..Len(keys) : keys[j] = key => j <= i]]

\* The assert statements of all_models: TRUE when one fails.
all_models_raises(variable_seq) ==
    \E i \in 1..Len(variable_seq) : ~is_variable(variable_seq[i])

\* A generator that yields 2 * len(variables) models.
all_models_twice(variable_seq) ==
    [k \in 1..(2 * Len(variable_seq)) |->
        dict_zip(variable_seq, product(Len(variable_seq), k - 1))]

\* list(all_models(variables))
all_models(variable_seq) ==
    [k \in 1..Pow2(Len(variable_seq)) |->
        dict_zip(variable_seq, product(Len(variable_seq), k - 1))]

\* list(truth_values(formula, models)), for models that cover the formula
truth_values(f, models) ==
    [i \in 1..Len(models) |-> evaluate(f, models[i])]

\* The order of Python's str comparison on the characters of variable names.
CharOrder ==
    <<"0", "1", "2", "3", "4", "5", "6", "7", "8", "9",
      "p", "q", "r", "s", "t", "u", "v", "w", "x", "y", "z">>
Ord(c) == CHOOSE i \in 1..Len(CharOrder) : CharOrder[i] = c

RECURSIVE str_lt(_, _)
str_lt(a, b) ==
    IF a = <<>> THEN b # <<>>
    ELSE IF b = <<>> THEN FALSE
    ELSE IF a[1] = b[1] THEN str_lt(Tail(a), Tail(b))
    ELSE Ord(a[1]) < Ord(b[1])

RECURSIVE sorted(_)
sorted(S) ==
    IF S = {} THEN <<>>
    ELSE LET least == CHOOSE x \in S : \A y \in S \ {x} : str_lt(x, y)
         IN  <<least>> \o sorted(S \ {least})

\* formula = items[0]; for item in items[1:]: formula = Formula(o, formula, item)
RECURSIVE FoldLeft(_, _)
FoldLeft(o, items) ==
    IF Len(items) = 1 THEN items[1]
    ELSE Formula(o, FoldLeft(o, SubSeq(items, 1, Len(items) - 1)),
                 items[Len(items)])

_synthesize_for_model(model) ==
    IF ~(is_model(model) /\ Cardinality(DOMAIN model) > 0)
    THEN AssertionError
    ELSE LET keys == sorted(DOMAIN model)
             literals == [i \in 1..Len(keys) |->
                            IF model[keys[i]] THEN Var(keys[i])
                            ELSE Not(Var(keys[i]))]
         IN  FoldLeft(<<"&">>, literals)

\* [item for item, value in zip(items, flags) if value = wanted]
RECURSIVE Select(_, _, _)
Select(items, flags, wanted) ==
    IF items = <<>> \/ flags = <<>> THEN <<>>
    ELSE IF flags[1] = wanted
    THEN <<items[1]>> \o Select(Tail(items), Tail(flags), wanted)
    ELSE Select(Tail(items), Tail(flags), wanted)

\* A synthesize whose fallback for an all-False table is (v|~v).
synthesize_fallback(variable_seq, value_seq) ==
    IF ~(Len(variable_seq) > 0) \/ all_models_raises(variable_seq)
    THEN AssertionError
    ELSE LET picked == Select(all_models(variable_seq), value_seq, TRUE)
             clauses == [i \in 1..Len(picked) |->
                            _synthesize_for_model(picked[i])]
         IN  IF clauses = <<>>
             THEN Bin(<<"|">>, Var(variable_seq[1]),
                      Not(Var(variable_seq[1])))
             ELSE FoldLeft(<<"|">>, clauses)

synthesize(variable_seq, value_seq) ==
    IF ~(Len(variable_seq) > 0) \/ all_models_raises(variable_seq)
    THEN AssertionError
    ELSE LET picked == Select(all_models(variable_seq), value_seq, TRUE)
             clauses == [i \in 1..Len(picked) |->
                            _synthesize_for_model(picked[i])]
         IN  IF clauses = <<>>
             THEN Bin(<<"&">>, Var(variable_seq[1]),
                      Not(Var(variable_seq[1])))
             ELSE FoldLeft(<<"|">>, clauses)

_synthesize_for_all_except_model(model) ==
    IF ~(is_model(model) /\ Cardinality(DOMAIN model) > 0)
    THEN AssertionError
    ELSE LET keys == sorted(DOMAIN model)
             literals == [i \in 1..Len(keys) |->
                            IF model[keys[i]] THEN Not(Var(keys[i]))
                            ELSE Var(keys[i])]
         IN  FoldLeft(<<"|">>, literals)

synthesize_cnf(variable_seq, value_seq) ==
    IF ~(Len(variable_seq) > 0) \/ all_models_raises(variable_seq)
    THEN AssertionError
    ELSE LET picked == Select(all_models(variable_seq), value_seq, FALSE)
             clauses == [i \in 1..Len(picked) |->
                            _synthesize_for_all_except_model(picked[i])]
         IN  IF clauses = <<>>
             THEN Bin(<<"|">>, Var(variable_seq[1]),
                      Not(Var(variable_seq[1])))
             ELSE FoldLeft(<<"&">>, clauses)

(***************************************************************************)
(* operators.py.  A function that ends without a return statement returns  *)
(* None; reading .root of None raises AttributeError.                      *)
(***************************************************************************)
NoFormula(x) == x = None \/ IsRaised(x)
RootOfNone(x) == IF x = None THEN AttributeError ELSE x

RECURSIVE to_not_and_or(_)
to_not_and_or(f) ==
    IF NoFormula(f) THEN RootOfNone(f)
    ELSE IF is_constant(f.root)
    THEN IF f.root = <<"T">>
         THEN Bin(<<"|">>, Var(<<"p">>), Not(Var(<<"p">>)))
         ELSE Bin(<<"&">>, Var(<<"p">>), Not(Var(<<"p">>)))
    ELSE IF is_variable(f.root) THEN Var(f.root)
    ELSE IF is_unary(f.root) THEN Not(to_not_and_or(f.first))
    ELSE IF is_binary(f.root)
    THEN LET first == to_not_and_or(f.first)
             second == to_not_and_or(f.second)
         IN  CASE f.root = <<"&">> -> Bin(<<"&">>, first, second)
               [] f.root = <<"|">> -> Bin(<<"|">>, first, second)
               [] f.root = <<"-", ">">> -> Bin(<<"|">>, Not(first), second)
               [] f.root = <<"+">> ->
                    Bin(<<"|">>, Bin(<<"&">>, first, Not(second)),
                                 Bin(<<"&">>, Not(first), second))
               [] f.root = <<"<", "-", ">">> ->
                    Bin(<<"|">>, Bin(<<"&">>, first, second),
                                 Bin(<<"&">>, Not(first), Not(second)))
               [] f.root = <<"-", "&">> -> Not(Bin(<<"&">>, first, second))
               [] f.root = <<"-", "|">> -> Not(Bin(<<"|">>, first, second))
               [] OTHER -> None
    ELSE None

\* A convert that copies '|' nodes instead of applying De Morgan's law.
RECURSIVE to_not_and_convert(_)
to_not_and_convert_keeps_or(expr) ==
    IF NoFormula(expr) THEN RootOfNone(expr)
    ELSE IF is_variable(expr.root) THEN expr
    ELSE IF is_constant(expr.root)
    THEN IF expr.root = <<"T">>
         THEN Not(Bin(<<"&">>, Var(<<"p">>), Not(Var(<<"p">>))))
         ELSE Bin(<<"&">>, Var(<<"p">>), Not(Var(<<"p">>)))
    ELSE IF is_unary(expr.root) THEN Not(to_not_and_convert(expr.first))
    ELSE Bin(expr.root, to_not_and_convert(expr.first),
             to_not_and_convert(expr.second))

\* convert, nested in to_not_and
to_not_and_convert(expr) ==
    IF NoFormula(expr) THEN RootOfNone(expr)
    ELSE IF is_variable(expr.root) THEN expr
    ELSE IF is_constant(expr.root)
    THEN IF expr.root = <<"T">>
         THEN Not(Bin(<<"&">>, Var(<<"p">>), Not(Var(<<"p">>))))
         ELSE Bin(<<"&">>, Var(<<"p">>), Not(Var(<<"p">>)))
    ELSE IF is_unary(expr.root) THEN Not(to_not_and_convert(expr.first))
    ELSE IF expr.root = <<"&">>
    THEN Bin(<<"&">>, to_not_and_convert(expr.first),
             to_not_and_convert(expr.second))
    ELSE IF expr.root = <<"|">>
    THEN Not(Bin(<<"&">>, Not(to_not_and_convert(expr.first)),
                 Not(to_not_and_convert(expr.second))))
    ELSE None

to_not_and(f) == to_not_and_convert(to_not_and_or(f))

RECURSIVE to_nand_convert(_)

\* convert of to_nand with the '&' rule stopping at (a-&b), the outer
\* (x-&x) that negates it forgotten
to_nand_convert_single_nand(expr) ==
    IF NoFormula(expr) THEN RootOfNone(expr)
    ELSE IF is_variable(expr.root) THEN expr
    ELSE IF is_unary(expr.root)
    THEN LET arg == to_nand_convert(expr.first)
         IN  Bin(<<"-", "&">>, arg, arg)
    ELSE IF expr.root = <<"&">>
    THEN Bin(<<"-", "&">>, to_nand_convert(expr.first),
             to_nand_convert(expr.second))
    ELSE None

\* convert, nested in to_nand
to_nand_convert(expr) ==
    IF NoFormula(expr) THEN RootOfNone(expr)
    ELSE IF is_variable(expr.root) THEN expr
    ELSE IF is_unary(expr.root)
    THEN LET arg == to_nand_convert(expr.first)
         IN  Bin(<<"-", "&">>, arg, arg)
    ELSE IF expr.root = <<"&">>
    THEN LET first == to_nand_convert(expr.first)
             second == to_nand_convert(expr.second)
             nand_ab == Bin(<<"-", "&">>, first, second)
         IN  Bin(<<"-", "&">>, nand_ab, nand_ab)
    ELSE None

to_nand(f) == to_nand_convert(to_not_and(f))

RECURSIVE to_implies_not(_)
to_implies_not(f) ==
    IF NoFormula(f) THEN RootOfNone(f)
    ELSE IF is_constant(f.root)
    THEN IF f.root = <<"T">>
         THEN Bin(<<"-", ">">>, Var(<<"p">>), Var(<<"p">>))
         ELSE Not(Bin(<<"-", ">">>, Var(<<"p">>), Var(<<"p">>)))
    ELSE IF is_variable(f.root) THEN f
    ELSE IF is_unary(f.root) THEN Not(to_implies_not(f.first))
    ELSE IF is_binary(f.root)
    THEN LET first == to_implies_not(f.first)
             second == to_implies_not(f.second)
             Implies(a, b) == Bin(<<"-", ">">>, a, b)
         IN  CASE f.root = <<"&">> -> Not(Implies(first, Not(second)))
               [] f.root = <<"|">> -> Implies(Not(first), second)
               [] f.root = <<"-", ">">> -> Implies(first, second)
               [] f.root = <<"+">> ->
                    LET left == Implies(first, Not(second))
                        right == Implies(second, Not(first))
                    IN  Not(Implies(left, Not(right)))
               [] f.root = <<"<", "-", ">">> ->
                    LET left == Implies(first, second)
                        right == Implies(second, first)
                    IN  Not(Implies(Not(left), Not(right)))
               [] f.root = <<"-", "&">> -> Implies(first, Not(second))
               [] f.root = <<"-", "|">> -> Not(Implies(Not(first), second))
               [] OTHER -> None
    ELSE None

\* convert, nested in to_implies_false
RECURSIVE to_implies_false_convert(_)
to_implies_false_convert(expr) ==
    IF NoFormula(expr) THEN RootOfNone(expr)
    ELSE IF is_variable(expr.root) THEN expr
    ELSE IF expr.root = <<"F">> THEN Var(<<"F">>)
    ELSE IF expr.root = <<"~">>
    THEN Bin(<<"-", ">">>, to_implies_false_convert(expr.first), Var(<<"F">>))
    ELSE IF expr.root = <<"-", ">">>
    THEN Bin(<<"-", ">">>, to_implies_false_convert(expr.first),
             to_implies_false_convert(expr.second))
    ELSE None

to_implies_false(f) == to_implies_false_convert(to_implies_not(f))

(***************************************************************************)
(* The input strings: every string of at most length characters of the     *)
(* formula alphabet, every rendered input formula with one edit, and two   *)
(* examples.                                                               *)
(***************************************************************************)
Alphabet ==
    {"p", "q", "x", "1", "T", "F", "~", "(", ")", "&", "|", "-", ">", "<",
     "+"}

RECURSIVE StringsOfLen(_)
StringsOfLen(n) ==
    IF n <= 0 THEN {<<>>}
    ELSE {Append(s, c) : s \in StringsOfLen(n - 1), c \in Alphabet}

Edits(s) ==
    {Upto(s, i) : i \in 0..Len(s)}
    \cup {From(s, i) : i \in 0..Len(s)}
    \cup {Append(s, c) : c \in Alphabet}
    \cup {Upto(s, i - 1) \o From(s, i) : i \in 1..Len(s)}

\* An unbalanced formula, and the formula it is cut from
ExampleStrings == {<<"(", "p", "&", "q">>, <<"(", "p", "&", "q", ")">>}

ShortStrings(length) ==
    UNION {StringsOfLen(n) : n \in 0..length} \cup ExampleStrings

(***************************************************************************)
(* The operations, one action each.  op names the operation that ran last  *)
(* and result holds what it returned (AssertionError when it raised).      *)
(* A run calls one operation on its input; a parser may also be called on  *)
(* the string a renderer has just written.                                 *)
(***************************************************************************)
NoInput == <<>>

\* str(formula)
Repr ==
    /\ op = "input"
    /\ formula # None
    /\ string' = __repr__(formula)
    /\ op' = "__repr__"
    /\ UNCHANGED <<formula, variable_list, values, substitution_map, result>>

\* formula.polish()
Polish ==
    /\ op = "input"
    /\ formula # None
    /\ string' = polish(formula)
    /\ op' = "polish"
    /\ UNCHANGED <<formula, variable_list, values, substitution_map, result>>

\* Formula.is_formula(string)
IsFormula ==
    /\ op \in {"input", "__repr__", "polish"}
    /\ result' = is_formula(string)
    /\ op' = "is_formula"
    /\ UNCHANGED <<formula, string, variable_list, values, substitution_map>>

\* Formula.parse(string)
Parse ==
    /\ op \in {"input", "__repr__", "polish"}
    /\ result' = parse(string)
    /\ op' = "parse"
    /\ UNCHANGED <<formula, string, variable_list, values, substitution_map>>

\* Formula.parse_polish(string)
ParsePolish ==
    /\ op \in {"input", "__repr__", "polish"}
    /\ result' = parse_polish(string)
    /\ op' = "parse_polish"
    /\ UNCHANGED <<formula, string, variable_list, values, substitution_map>>

InitSyntax ==
    /\ \/ formula \in SyntaxFormulas(MaxSize) /\ string = <<>>
       \/ formula = None /\ string \in ShortStrings(MaxLen)
       \/ /\ formula = None
          /\ \E f \in SyntaxFormulas(MaxSize) : string \in Edits(__repr__(f))
    /\ variable_list = NoInput
    /\ values = NoInput
    /\ substitution_map = NoInput
    /\ op = "input"
    /\ result = None

NextSyntax == Repr \/ Polish \/ IsFormula \/ Parse \/ ParsePolish

SpecSyntax == InitSyntax /\ [][NextSyntax]_vars

\* list(all_models(variable_list))
AllModels ==
    /\ op = "input"
    /\ result' = IF all_models_raises(variable_list) THEN AssertionError
                 ELSE all_models(variable_list)
    /\ op' = "all_models"
    /\ UNCHANGED <<formula, string, variable_list, values, substitution_map>>

\* synthesize(variable_list, values)
Synthesize ==
    /\ op = "input"
    /\ result' = synthesize(variable_list, values)
    /\ op' = "synthesize"
    /\ UNCHANGED <<formula, string, variable_list, values, substitution_map>>

\* synthesize_cnf(variable_list, values)
SynthesizeCnf ==
    /\ op = "input"
    /\ result' = synthesize_cnf(variable_list, values)
    /\ op' = "synthesize_cnf"
    /\ UNCHANGED <<formula, string, variable_list, values, substitution_map>>

\* Every list of at most n names
RECURSIVE ListsUpTo(_, _)
ListsUpTo(S, n) ==
    IF n <= 0 THEN {<<>>}
    ELSE ListsUpTo(S, n - 1)
         \cup {Append(l, x) : l \in {m \in ListsUpTo(S, n - 1) :
                                        Len(m) = n - 1},
                              x \in S}

\* The names the input variable lists are made of
SynthesisNames == {<<"p">>, <<"q">>, <<"x", "1">>}

InitSemantics ==
    /\ variable_list \in ListsUpTo(SynthesisNames, MaxVars)
    /\ values \in [1..Pow2(Len(variable_list)) -> BOOLEAN]
    /\ formula = None
    /\ string = NoInput
    /\ substitution_map = NoInput
    /\ op = "input"
    /\ result = None

NextSemantics == AllModels \/ Synthesize \/ SynthesizeCnf

SpecSemantics == InitSemantics /\ [][NextSemantics]_vars

\* to_not_and_or(formula)
ToNotAndOr ==
    /\ op = "input"
    /\ formula # None
    /\ result' = to_not_and_or(formula)
    /\ op' = "to_not_and_or"
    /\ UNCHANGED <<formula, string, variable_list, values, substitution_map>>

\* to_not_and(formula)
ToNotAnd ==
    /\ op = "input"
    /\ formula # None
    /\ result' = to_not_and(formula)
    /\ op' = "to_not_and"
    /\ UNCHANGED <<formula, string, variable_list, values, substitution_map>>

\* to_nand(formula)
ToNand ==
    /\ op = "input"
    /\ formula # None
    /\ result' = to_nand(formula)
    /\ op' = "to_nand"
    /\ UNCHANGED <<formula, string, variable_list, values, substitution_map>>

\* to_implies_not(formula)
ToImpliesNot ==
    /\ op = "input"
    /\ formula # None
    /\ result' = to_implies_not(formula)
    /\ op' = "to_implies_not"
    /\ UNCHANGED <<formula, string, variable_list, values, substitution_map>>

\* to_implies_false(formula)
ToImpliesFalse ==
    /\ op = "input"
    /\ formula # None
    /\ result' = to_implies_false(formula)
    /\ op' = "to_implies_false"
    /\ UNCHANGED <<formula, string, variable_list, values, substitution_map>>

Init ==
    /\ formula \in Formulas(MaxSize)
    /\ string = NoInput
    /\ variable_list = NoInput
    /\ values = NoInput
    /\ substitution_map = NoInput
    /\ op = "input"
    /\ result = None

Next == ToNotAndOr \/ ToNotAnd \/ ToNand \/ ToImpliesNot \/ ToImpliesFalse

Spec == Init /\ [][Next]_vars

\* formula.substitute_variables(substitution_map)
SubstituteVariables ==
    /\ op = "input"
    /\ formula # None
    /\ result' = substitute_variables(formula, substitution_map)
    /\ op' = "substitute_variables"
    /\ UNCHANGED <<formula, string, variable_list, values, substitution_map>>

\* formula.substitute_operators(substitution_map)
SubstituteOperators ==
    /\ op = "input"
    /\ formula # None
    /\ result' = substitute_operators(formula, substitution_map)
    /\ op' = "substitute_operators"
    /\ UNCHANGED <<formula, string, variable_list, values, substitution_map>>

\* Every function from a set of at most two of the keys to the values
MapsUpToTwo(keys, vals) ==
    UNION {[K -> vals] : K \in {L \in SUBSET keys : Cardinality(L) <= 2}}

\* What the input maps send variables to
VariableImages ==
    {Var(<<"p">>), Var(<<"q">>), Var(<<"T">>),
     Bin(<<"&">>, Var(<<"p">>), Var(<<"q">>))}

\* The keys and the templates of the input operator maps; the template x1
\* uses a variable that is no placeholder.
OperatorKeys == {<<"F">>, <<"~">>, <<"&">>}
OperatorTemplates ==
    {Var(<<"p">>), Var(<<"T">>), Var(<<"x", "1">>),
     Bin(<<"-", "&">>, Var(<<"q">>), Var(<<"p">>)),
     Not(Bin(<<"&">>, Var(<<"p">>), Var(<<"q">>)))}

SubstitutionMaps ==
    MapsUpToTwo({<<"p">>, <<"q">>}, VariableImages)
    \cup MapsUpToTwo(OperatorKeys, OperatorTemplates)

InitSubstitution ==
    /\ formula \in SubstitutionFormulas(MaxSize)
    /\ substitution_map \in SubstitutionMaps
    /\ string = NoInput
    /\ variable_list = NoInput
    /\ values = NoInput
    /\ op = "input"
    /\ result = None

NextSubstitution == SubstituteVariables \/ SubstituteOperators

SpecSubstitution == InitSubstitution /\ [][NextSubstitution]_vars

(***************************************************************************)
(* Claims about syntax.py, checked under SpecSyntax.                       *)
(***************************************************************************)

\* C3: for every formula f, is_formula(str(f)) is true and
\* Formula.parse(str(f)) succeeds and equals f.
C3_InfixRoundTrip ==
    (formula # None /\ string = __repr__(formula)) =>
        /\ op = "is_formula" => result = TRUE
        /\ op = "parse" => /\ ~IsRaised(result)
                           /\ __eq__(result, formula)

\* C3 happens: the rendering of an IFF formula was parsed back.
C3_Witness ==
    /\ formula # None
    /\ op = "parse"
    /\ string = __repr__(formula)
    /\ formula.root = <<"<", "-", ">">>
    /\ result = formula

\* C4: for every formula f, whichever of the seven binary operators it
\* uses, Formula.parse_polish(f.polish()) succeeds and equals f.
C4_PolishRoundTrip ==
    (formula # None /\ string = polish(formula) /\ op = "parse_polish") =>
        /\ ~IsRaised(result)
        /\ __eq__(result, formula)

\* The grammar: formula := variable | constant | '~' formula
\*                       | '(' formula binop formula ')'
IsVariableToken(s) ==
    /\ Len(s) >= 1
    /\ s[1] \in LettersPToZ
    /\ \A i \in 2..Len(s) : s[i] \in DecimalDigits

RECURSIVE Derives(_)
Derives(s) ==
    \/ IsVariableToken(s)
    \/ s \in {<<"T">>, <<"F">>}
    \/ Len(s) >= 2 /\ s[1] = "~" /\ Derives(Tail(s))
    \/ /\ Len(s) >= 5
       /\ s[1] = "("
       /\ s[Len(s)] = ")"
       /\ \E i \in 2..(Len(s) - 3), o \in BinaryOperators :
             /\ i + Len(o) + 1 <= Len(s) - 1
             /\ SubSeq(s, i + 1, i + Len(o)) = o
             /\ Derives(SubSeq(s, 2, i))
             /\ Derives(SubSeq(s, i + Len(o) + 1, Len(s) - 1))

\* C5: is_formula(s) raises nothing and is true exactly when the whole of
\* s derives from the grammar.
C5_IsFormulaIsGrammar ==
    op = "is_formula" =>
        /\ ~IsRaised(_parse_prefix(string)[1])
        /\ result = Derives(string)

\* C5 happens: the unbalanced '(p&q' was rejected.
C5_Witness ==
    /\ op = "is_formula"
    /\ string = <<"(", "p", "&", "q">>
    /\ result = FALSE

(***************************************************************************)
(* Claims about semantics.py, checked under SpecSemantics.                 *)
(***************************************************************************)
Distinct(seq) ==
    \A i, j \in 1..Len(seq) : seq[i] = seq[j] => i = j

\* The truth values of the synthesized formula f over
\* all_models(variable_list), in order, are values.
Realizes(f) ==
    /\ ~IsRaised(f)
    /\ LET models == all_models(variable_list)
       IN  /\ \A i \in 1..Len(models) : ~evaluate_raises(f, models[i])
           /\ truth_values(f, models) = values

\* C6 as stated: for any non-empty variable list V and any values of length
\* 2**len(V), the truth values of synthesize(V, values) and of
\* synthesize_cnf(V, values) over all_models(V) equal values.
C6_SynthesisAnyList ==
    (op \in {"synthesize", "synthesize_cnf"} /\ Len(variable_list) > 0)
        => Realizes(result)

\* C6 (amended): the same, for every non-empty list V of pairwise distinct
\* variables.
C6_SynthesisDistinct ==
    (/\ op \in {"synthesize", "synthesize_cnf"}
     /\ Len(variable_list) > 0
     /\ Distinct(variable_list))
        => Realizes(result)

\* C6 happens: a DNF of two clauses was synthesized over [q, p].
C6_Witness ==
    /\ op = "synthesize"
    /\ variable_list = <<<<"q">>, <<"p">>>>
    /\ values = <<FALSE, TRUE, TRUE, FALSE>>
    /\ result.root = <<"|">>
    /\ Realizes(result)

\* C7 as stated: for every variable list, all_models yields exactly
\* 2**len(vars) models and they are pairwise distinct.
C7_ModelsAnyList ==
    op = "all_models" =>
        /\ Len(result) = Pow2(Len(variable_list))
        /\ Distinct(result)

\* C7 (amended): for every list of pairwise distinct variables (the empty
\* list included, which yields exactly one empty model), all_models yields
\* exactly 2**len(vars) models and they are pairwise distinct.
C7_ModelsDistinct ==
    (op = "all_models" /\ Distinct(variable_list)) =>
        /\ Len(result) = Pow2(Len(variable_list))
        /\ Distinct(result)
        /\ variable_list = <<>> => (Len(result) = 1 /\ DOMAIN result[1] = {})

\* C7 happens: the four models over [p, q] were yielded, in counting order.
C7_Witness ==
    /\ op = "all_models"
    /\ variable_list = <<<<"p">>, <<"q">>>>
    /\ Len(result) = 4
    /\ result[2][<<"p">>] = FALSE
    /\ result[2][<<"q">>] = TRUE

(***************************************************************************)
(* Claims about operators.py, checked under Spec.                          *)
(***************************************************************************)
Reducers ==
    {"to_not_and_or", "to_not_and", "to_nand", "to_implies_not",
     "to_implies_false"}

\* Every model over a set of the input variable names that covers f
ModelsCovering(f) ==
    UNION {[V -> BOOLEAN] : V \in {W \in SUBSET VariableNames :
                                       variables(f) \subseteq W}}

\* Every model that assigns every input variable name (it covers f, and
\* also the p a reducer writes for a constant)
FullModels == [VariableNames -> BOOLEAN]

\* C1: for every reducer R, formula f and model m covering f's variables,
\* evaluate(R(f), m) is defined and equals evaluate(f, m); stated for the
\* models m that assign every variable name.
C1_EquivalencePreserved ==
    op \in Reducers =>
        /\ ~NoFormula(result)
        /\ \A m \in FullModels :
              /\ ~evaluate_raises(result, m)
              /\ evaluate(result, m) = evaluate(formula, m)

\* The same for every model covering f's variables, those that do not
\* assign p included (a constant of f is written with p, so this fails for
\* f = T as well).
EquivalenceUnderEveryCoveringModel ==
    op \in Reducers =>
        /\ ~NoFormula(result)
        /\ \A m \in ModelsCovering(formula) :
              /\ ~evaluate_raises(result, m)
              /\ evaluate(result, m) = evaluate(formula, m)

\* The target set of each reducer
TargetOperators(reducer) ==
    CASE reducer = "to_not_and_or" -> {<<"~">>, <<"&">>, <<"|">>}
      [] reducer = "to_not_and" -> {<<"~">>, <<"&">>}
      [] reducer = "to_nand" -> {<<"-", "&">>}
      [] reducer = "to_implies_not" -> {<<"-", ">">>, <<"~">>}
      [] reducer = "to_implies_false" -> {<<"-", ">">>, <<"F">>}

\* C2: every reducer returns a formula, never None, whose operators() is a
\* subset of the reducer's target set.
C2_OperatorContainment ==
    op \in Reducers =>
        /\ ~NoFormula(result)
        /\ operators(result) \subseteq TargetOperators(op)

\* C2 happens: to_nand reduced a NOR formula to '-&' alone.
C2_Witness ==
    /\ op = "to_nand"
    /\ formula.root = <<"-", "|">>
    /\ ~NoFormula(result)
    /\ operators(result) = {<<"-", "&">>}

\* A binary formula whose two operands are variables
BinaryOfVariables(f) ==
    /\ f # None
    /\ is_binary(f.root)
    /\ is_variable(f.first.root)
    /\ is_variable(f.second.root)

\* C11: for variables a and b and every binary operator o,
\* to_implies_not((a o b)) evaluates as (a o b) does under every assignment
\* to a and b.
C11_ExpansionRulesCorrect ==
    (op = "to_implies_not" /\ BinaryOfVariables(formula)) =>
        /\ ~NoFormula(result)
        /\ \A m \in [variables(formula) -> BOOLEAN] :
              /\ ~evaluate_raises(result, m)
              /\ evaluate(result, m) = evaluate(formula, m)

\* The operands of f that are the constant F stay F in g, operand by operand
KeepsOperandF(f, g) ==
    /\ g.root = <<"-", ">">>
    /\ f.first.root = <<"F">> => g.first = Formula(<<"F">>, None, None)
    /\ f.second.root = <<"F">> => g.second = Formula(<<"F">>, None, None)

\* C12: to_implies_false keeps every F of its input as F: to_implies_false(F)
\* is F, and an F operand of an implication is an F operand of the result.
C12_FalseIsPrimitive ==
    op = "to_implies_false" =>
        /\ ~NoFormula(result)
        /\ formula.root = <<"F">> => result = Formula(<<"F">>, None, None)
        /\ formula.root = <<"-", ">">> => KeepsOperandF(formula, result)

\* The reducers that C13 is about
ConstantFreeReducers == {"to_not_and_or", "to_not_and", "to_nand"}

\* f has no constant T or F (operators() lists the constants of f too)
ConstantFree(f) == operators(f) \cap {<<"T">>, <<"F">>} = {}

\* C13: for a formula f without T and F, each of to_not_and_or, to_not_and
\* and to_nand returns g with g.variables() = f.variables() and with
\* evaluate(g, m) = evaluate(f, m) for every model m covering f's variables.
C13_ConstantFreeKeepsVariables ==
    (op \in ConstantFreeReducers /\ ConstantFree(formula)) =>
        /\ ~NoFormula(result)
        /\ variables(result) = variables(formula)
        /\ \A m \in ModelsCovering(formula) :
              /\ ~evaluate_raises(result, m)
              /\ evaluate(result, m) = evaluate(formula, m)

\* C13 happens: to_nand reduced the constant-free (q+q), whose only
\* variable is q, to a formula over q alone.
C13_Witness ==
    /\ op = "to_nand"
    /\ formula = Bin(<<"+">>, Var(<<"q">>), Var(<<"q">>))
    /\ ~NoFormula(result)
    /\ variables(result) = {<<"q">>}
    /\ operators(result) = {<<"-", "&">>}

(***************************************************************************)
(* Claims about substitution, checked under SpecSubstitution.              *)
(***************************************************************************)
Placeholders == {<<"p">>, <<"q">>}

\* A template the claim calls bad: one bound to a constant or to '~' that
\* uses a variable other than p, or one bound to a binary operator that
\* uses a variable other than p and q.
BadTemplate(map) ==
    \E k \in DOMAIN map :
        \/ /\ is_constant(k) \/ is_unary(k)
           /\ ~(variables(map[k]) \subseteq {<<"p">>})
        \/ /\ is_binary(k)
           /\ ~(variables(map[k]) \subseteq Placeholders)

\* C8 as stated: substitute_operators with a bad template raises and
\* returns no formula.
C8_RejectsBadTemplates ==
    (op = "substitute_operators" /\ BadTemplate(substitution_map))
        => result = AssertionError

\* C8 (amended): substitute_operators with a map that binds any constant or
\* operator to a template using a variable other than p and q raises and
\* returns no formula.
C8_RejectsNonPlaceholders ==
    (/\ op = "substitute_operators"
     /\ \E k \in DOMAIN substitution_map :
           ~(variables(substitution_map[k]) \subseteq Placeholders))
        => result = AssertionError

\* C8 happens: '~' bound to the template x1 was rejected.
C8_Witness ==
    /\ op = "substitute_operators"
    /\ <<"~">> \in DOMAIN substitution_map
    /\ substitution_map[<<"~">>] = Var(<<"x", "1">>)
    /\ formula # None
    /\ formula.root = <<"~">>
    /\ result = AssertionError

\* The number of decimal digits s starts with
RECURSIVE LeadingDigits(_)
LeadingDigits(s) ==
    IF s # <<>> /\ s[1] \in DecimalDigits THEN 1 + LeadingDigits(Tail(s))
    ELSE 0

\* The text s with every variable token that is a key of map replaced by
\* the rendering of its image, in one pass from left to right
RECURSIVE SubstStr(_, _)
SubstStr(s, map) ==
    IF s = <<>> THEN <<>>
    ELSE IF s[1] \in LettersPToZ
    THEN LET n == 1 + LeadingDigits(Tail(s))
             token == SubSeq(s, 1, n)
         IN  (IF token \in DOMAIN map THEN __repr__(map[token]) ELSE token)
             \o SubstStr(SubSeq(s, n + 1, Len(s)), map)
    ELSE <<s[1]>> \o SubstStr(Tail(s), map)

VariableMap(map) == \A k \in DOMAIN map : is_variable(k)

\* C9: substitute_variables replaces each occurrence of a key by its image
\* verbatim, all at once, and changes nothing else.
C9_SimultaneousSubstitution ==
    (op = "substitute_variables" /\ VariableMap(substitution_map)) =>
        /\ ~NoFormula(result)
        /\ __repr__(result)
             = SubstStr(__repr__(formula), substitution_map)

\* C9 happens: p and q were exchanged in (p&q).
C9_Witness ==
    /\ op = "substitute_variables"
    /\ DOMAIN substitution_map = {<<"p">>, <<"q">>}
    /\ substitution_map[<<"p">>] = Var(<<"q">>)
    /\ substitution_map[<<"q">>] = Var(<<"p">>)
    /\ formula = Bin(<<"&">>, Var(<<"p">>), Var(<<"q">>))
    /\ result = Bin(<<"&">>, Var(<<"q">>), Var(<<"p">>))

\* A map substitute_operators accepts
ValidOperatorMap(map) ==
    \A k \in DOMAIN map :
        /\ is_constant(k) \/ is_unary(k) \/ is_binary(k)
        /\ variables(map[k]) \subseteq Placeholders

\* C10: variables and unmapped constants are returned unchanged, an
\* unmapped operator keeps its root over its substituted children, and a
\* mapped root becomes its template with p and q replaced, all at once, by
\* the substituted first and second child.
C10_BottomUpExpansion ==
    (op = "substitute_operators" /\ ValidOperatorMap(substitution_map)) =>
        LET f == formula
            map == substitution_map
            child1 == substitute_operators(f.first, map)
            child2 == substitute_operators(f.second, map)
        IN  /\ ~NoFormula(result)
            /\ IF is_variable(f.root) THEN result = f
               ELSE IF f.root \notin DOMAIN map
               THEN /\ result.root = f.root
                    /\ is_unary(f.root) =>
                          (DOMAIN result = {"root", "first"}
                           /\ result.first = child1)
                    /\ is_binary(f.root) =>
                          (result.first = child1 /\ result.second = child2)
                    /\ is_constant(f.root) => result = f
               ELSE IF is_constant(f.root) THEN result = map[f.root]
               ELSE IF is_unary(f.root)
               THEN __repr__(result)
                      = SubstStr(__repr__(map[f.root]), Bind1(child1))
               ELSE __repr__(result)
                      = SubstStr(__repr__(map[f.root]),
                                 Bind2(child1, child2))

\* C10 happens: with '~' mapped to ~(p&q) and '&' to (q-&p), the nested
\* ~(q&p) became ~((p-&q)&q): both operators were replaced, the inner one
\* first, and the q and p of the children were not bound again.
C10_Witness ==
    /\ op = "substitute_operators"
    /\ DOMAIN substitution_map = {<<"~">>, <<"&">>}
    /\ substitution_map[<<"&">>]
         = Bin(<<"-", "&">>, Var(<<"q">>), Var(<<"p">>))
    /\ substitution_map[<<"~">>]
         = Not(Bin(<<"&">>, Var(<<"p">>), Var(<<"q">>)))
    /\ formula = Not(Bin(<<"&">>, Var(<<"q">>), Var(<<"p">>)))
    /\ result = Not(Bin(<<"&">>,
                        Bin(<<"-", "&">>, Var(<<"p">>), Var(<<"q">>)),
                        Var(<<"q">>)))

====
